---- MODULE Spec2Model ----
(***************************************************************************)
(* The todo application of src/todo.js: the reducers todo, todos,          *)
(* visibilityFilter, their combination todoApp, and the store built from   *)
(* todoApp by createStore (getState, dispatch, subscribe).                 *)
(*                                                                         *)
(* The reducers are translated from src/todo.js.  combineReducers and      *)
(* createStore are imported from the Redux library, whose code is not in   *)
(* src/; they are modelled from spec.md sections 4.4, 4.5, 7 and 9.        *)
(*                                                                         *)
(* dispatch is a synchronous call that calls back into listeners, which    *)
(* may themselves call the store.  The call stack of dispatch calls in     *)
(* progress is the variable stack: one frame per notification pass.        *)
(***************************************************************************)
EXTENDS Integers, Sequences, FiniteSets, TLC

\* ---------------------------------------------------------------- bounds
\* longest todo collection explored
MaxTodos == 2
\* number of listener closures created over a run
NumListeners == 2
\* deepest nesting of dispatch calls (SpecReentrant only)
MaxDepth == 2

\* the ids and texts that actions carry
Ids == {0, 1}
Texts == {"", "milk"}

\* ------------------------------------------------------------ JS values
\* the value `undefined`, where a todo or a whole state is expected
Undefined == [undefined |-> TRUE]
\* the exception raised by reading a property of undefined
TypeError == [error |-> "TypeError"]

Filters == {"SHOW_ALL", "SHOW_ACTIVE", "SHOW_COMPLETED"}
\* SET_VISIBILITY_FILTER carries any value; "BOGUS" stands for the invalid ones
FilterValues == Filters \cup {"BOGUS"}

AddActions == [type : {"ADD_TODO"}, id : Ids, text : Texts]
ToggleActions == [type : {"TOGGLE_TODO"}, id : Ids]
FilterActions == [type : {"SET_VISIBILITY_FILTER"}, filter : FilterValues]
\* the bootstrap action of createStore, and an action type nobody handles
InitAction == [type |-> "@@INIT"]
OtherActions == [type : {"@@INIT", "UNKNOWN"}]
Actions == AddActions \cup ToggleActions \cup FilterActions \cup OtherActions

Range(s) == {s[i] : i \in 1 .. Len(s)}

\* ------------------------------------------------------------- reducers
todoMutFixedId(state, action) ==
    CASE action.type = "ADD_TODO" ->
            [id |-> 0, text |-> action.text, completed |-> FALSE]
      [] action.type = "TOGGLE_TODO" ->
            IF state = Undefined THEN TypeError
            ELSE IF state.id # action.id THEN state
            ELSE [state EXCEPT !.completed = ~state.completed]
      [] OTHER -> state

todoMutCompletes(state, action) ==
    CASE action.type = "ADD_TODO" ->
            [id |-> action.id, text |-> action.text, completed |-> FALSE]
      [] action.type = "TOGGLE_TODO" ->
            IF state = Undefined THEN TypeError
            ELSE IF state.id # action.id THEN state
            ELSE [state EXCEPT !.completed = TRUE]
      [] OTHER -> state

todoMutToggleAll(state, action) ==
    CASE action.type = "ADD_TODO" ->
            [id |-> action.id, text |-> action.text, completed |-> FALSE]
      [] action.type = "TOGGLE_TODO" ->
            IF state = Undefined THEN TypeError
            ELSE [state EXCEPT !.completed = ~state.completed]
      [] OTHER -> state

\* const todo = (state, action) => ...   (state is one todo, or undefined)
todo(state, action) ==
    CASE action.type = "ADD_TODO" ->
            [id |-> action.id, text |-> action.text, completed |-> FALSE]
      [] action.type = "TOGGLE_TODO" ->
            IF state = Undefined THEN TypeError
            ELSE IF state.id # action.id THEN state
            ELSE [state EXCEPT !.completed = ~state.completed]
      [] OTHER -> state

\* the default parameter of todos: state = []
todosDefault == <<>>

todosMutPrepend(state, action) ==
    CASE action.type = "ADD_TODO" -> <<todo(Undefined, action)>> \o state
      [] action.type = "TOGGLE_TODO" ->
            [i \in 1 .. Len(state) |-> todo(state[i], action)]
      [] OTHER -> state

todosMutToggleFilters(state, action) ==
    CASE action.type = "ADD_TODO" -> Append(state, todo(Undefined, action))
      [] action.type = "TOGGLE_TODO" ->
            SelectSeq(state, LAMBDA t : t.id # action.id)
      [] OTHER -> state

todosMutDefaultClears(state, action) ==
    CASE action.type = "ADD_TODO" -> Append(state, todo(Undefined, action))
      [] action.type = "TOGGLE_TODO" ->
            [i \in 1 .. Len(state) |-> todo(state[i], action)]
      [] OTHER -> todosDefault

\* const todos = (state = [], action) => ...
todos(state, action) ==
    CASE action.type = "ADD_TODO" -> Append(state, todo(Undefined, action))
      [] action.type = "TOGGLE_TODO" ->
            [i \in 1 .. Len(state) |-> todo(state[i], action)]
      [] OTHER -> state

visibilityFilterDefaultMutActive == "SHOW_ACTIVE"

\* the default parameter of visibilityFilter: state = 'SHOW_ALL'
visibilityFilterDefault == "SHOW_ALL"

visibilityFilterMutResets(state, action) ==
    CASE action.type = "SET_VISIBILITY_FILTER" -> action.filter
      [] OTHER -> visibilityFilterDefault

visibilityFilterMutReturnsType(state, action) ==
    CASE action.type = "SET_VISIBILITY_FILTER" -> action.type
      [] OTHER -> state

visibilityFilterMutValidates(state, action) ==
    CASE action.type = "SET_VISIBILITY_FILTER" ->
            IF action.filter \in Filters THEN action.filter ELSE state
      [] OTHER -> state

\* const visibilityFilter = (state = 'SHOW_ALL', action) => ...
visibilityFilter(state, action) ==
    CASE action.type = "SET_VISIBILITY_FILTER" -> action.filter
      [] OTHER -> state

\* const todoApp = combineReducers({todos, visibilityFilter}): each field's
\* reducer gets that field's slice (its default when the state is undefined)
\* and the action; the results are assembled into a new state.
todoApp(state, action) ==
    [todos |->
        todos(IF state = Undefined THEN todosDefault ELSE state.todos,
              action),
     visibilityFilter |->
        visibilityFilter(IF state = Undefined THEN visibilityFilterDefault
                         ELSE state.visibilityFilter,
                         action)]

\* ---------------------------------------------------------------- store
VARIABLES
    state,          \* the store's current state (what getState returns)
    listeners,      \* the store's listener list, in registration order
    listenerCount,  \* listener closures created so far; closure l is the
                    \* l-th one passed to subscribe
    unsubscribed,   \* the closures whose unsubscribe function was called
    stack,          \* dispatch calls in progress, outermost first
    freshIds,       \* no ADD_TODO dispatched so far carried the id of a
                    \* todo that was already in the collection
    knownFilters,   \* no SET_VISIBILITY_FILTER dispatched so far carried a
                    \* value other than the three filters
    nextTodoId,     \* let nextTodoId = 0
    rendered,       \* what the last ReactDOM.render of TodoApp showed
    last            \* the operation that produced the current state

vars == <<state, listeners, listenerCount, unsubscribed, stack, freshIds,
          knownFilters, nextTodoId, rendered, last>>

\* what the application outside the store holds
app == <<nextTodoId, rendered>>

NoAction == [type |-> "none"]
NoFrame == [changed |-> FALSE, next |-> Undefined, registered |-> <<>>,
            snapshot |-> <<>>, idx |-> 0, invoked |-> <<>>, removed |-> {}]

\* the record of an operation: what it was called with and on which state
Op(op, action, l, frame, error) ==
    [op |-> op, action |-> action, pre |-> state,
     preListeners |-> listeners, l |-> l, depth |-> Len(stack),
     frame |-> frame, error |-> error]

\* nothing has been rendered yet
NothingRendered == [visibleTodos |-> <<>>, currentFilter |-> "none"]

\* store.getState()
getState == state

\* createStore(todoApp): the state is todoApp(undefined, bootstrap action)
Init ==
    /\ state = todoApp(Undefined, InitAction)
    /\ listeners = <<>>
    /\ listenerCount = 0
    /\ unsubscribed = {}
    /\ stack = <<>>
    /\ freshIds = TRUE
    /\ knownFilters = TRUE
    /\ nextTodoId = 0
    /\ rendered = NothingRendered
    /\ last = [op |-> "createStore", action |-> InitAction,
               pre |-> todoApp(Undefined, InitAction),
               preListeners |-> <<>>, l |-> 0, depth |-> 0,
               frame |-> NoFrame, error |-> "none"]

\* the notification pass of one dispatch call.  snapshot is the listener
\* list frozen when the pass starts; registered, invoked and removed record
\* which listeners were registered when dispatch was called, which ones the
\* pass has invoked, and which ones were unsubscribed while it ran; changed
\* tells whether the dispatch changed the state.
NewPass(next) ==
    [changed |-> next # state, next |-> next, registered |-> listeners,
     snapshot |-> listeners, idx |-> 1, invoked |-> <<>>, removed |-> {}]

PassListenersMutLive(f) == listeners

\* the listeners the pass of frame f iterates over
PassListeners(f) == f.snapshot

IdsOf(s) == {s[i].id : i \in 1 .. Len(s)}

\* the caller gives a new todo an id that no todo of the collection has
FreshId(action) ==
    action.type = "ADD_TODO" => action.id \notin IdsOf(state.todos)

\* the caller sets one of the three filters, as the filter links do
KnownFilter(action) ==
    action.type = "SET_VISIBILITY_FILTER" => action.filter \in Filters

\* actions a caller may dispatch; the collection is kept within MaxTodos
Dispatchable ==
    {a \in Actions : a.type = "ADD_TODO" => Len(state.todos) < MaxTodos}

\* the reducer raised an exception while computing next
Threw(next) == \E i \in 1 .. Len(next.todos) : next.todos[i] = TypeError

DispatchCallMutSkipUnchanged(action, stk) ==
    LET next == todoApp(state, action) IN
    IF Threw(next)
    THEN /\ last' = Op("dispatch", action, 0, NoFrame, "TypeError")
         /\ stack' = stk
         /\ UNCHANGED <<state, listeners, listenerCount, unsubscribed,
                        freshIds, knownFilters, rendered>>
    ELSE /\ state' = next
         /\ stack' = Append(stk, IF next = state
                                 THEN [NewPass(next) EXCEPT !.snapshot = <<>>]
                                 ELSE NewPass(next))
         /\ freshIds' = (freshIds /\ FreshId(action))
         /\ knownFilters' = (knownFilters /\ KnownFilter(action))
         /\ last' = Op("dispatch", action, 0, NoFrame, "none")
         /\ UNCHANGED <<listeners, listenerCount, unsubscribed, rendered>>

\* the call dispatch(action) made with stk as the calls in progress: an
\* exception of the reducer propagates to the caller, otherwise the state
\* is replaced and the notification pass starts
DispatchCall(action, stk) ==
    LET next == todoApp(state, action) IN
    IF Threw(next)
    THEN /\ last' = Op("dispatch", action, 0, NoFrame, "TypeError")
         /\ stack' = stk
         /\ UNCHANGED <<state, listeners, listenerCount, unsubscribed,
                        freshIds, knownFilters, rendered>>
    ELSE /\ state' = next
         /\ stack' = Append(stk, NewPass(next))
         /\ freshIds' = (freshIds /\ FreshId(action))
         /\ knownFilters' = (knownFilters /\ KnownFilter(action))
         /\ last' = Op("dispatch", action, 0, NoFrame, "none")
         /\ UNCHANGED <<listeners, listenerCount, unsubscribed, rendered>>

\* store.dispatch(action), called from an event handler
dispatch(action) ==
    /\ stack = <<>>
    /\ action \in Dispatchable
    /\ DispatchCall(action, stack)
    /\ UNCHANGED nextTodoId

\* store.subscribe(listener) with a new closure (componentDidMount, or the
\* start of the application)
subscribe(l) ==
    /\ stack = <<>>
    /\ l = listenerCount + 1
    /\ l <= NumListeners
    /\ listeners' = Append(listeners, l)
    /\ listenerCount' = l
    /\ last' = Op("subscribe", NoAction, l, NoFrame, "none")
    /\ UNCHANGED <<state, unsubscribed, stack, freshIds, knownFilters, app>>

RemoveMutLast(ls, l) == SubSeq(ls, 1, Len(ls) - 1)

\* the listener list without listener l
Remove(ls, l) == SelectSeq(ls, LAMBDA x : x # l)

\* this.unsubscribe(), the function returned by subscribe(l), called from
\* componentWillUnmount outside any dispatch
unsubscribe(l) ==
    /\ stack = <<>>
    /\ l \in Range(listeners)
    /\ listeners' = Remove(listeners, l)
    /\ unsubscribed' = unsubscribed \cup {l}
    /\ last' = Op("unsubscribe", NoAction, l, NoFrame, "none")
    /\ UNCHANGED <<state, listenerCount, stack, freshIds, knownFilters, app>>

\* ----------------------------------------------------- notification pass
Top == stack[Len(stack)]

Notifying ==
    /\ stack # <<>>
    /\ Top.idx <= Len(PassListeners(Top))

\* the listener the pass invokes next
Current == PassListeners(Top)[Top.idx]

\* the stack once the pass has invoked Current
Invoked ==
    [stack EXCEPT ![Len(stack)] =
        [@ EXCEPT !.idx = @ + 1, !.invoked = Append(@, Current)]]

\* the listener re-renders a component from store.getState()
\* (this.forceUpdate())
listenerRender ==
    /\ Notifying
    /\ stack' = Invoked
    /\ last' = Op("listener", NoAction, Current, NoFrame, "none")
    /\ UNCHANGED <<state, listeners, listenerCount, unsubscribed, freshIds,
                   knownFilters, app>>

\* the listener's re-render unmounts a component, whose componentWillUnmount
\* calls the unsubscribe function of listener k (itself or another one)
listenerUnmount(k) ==
    /\ Notifying
    /\ k \in Range(listeners)
    /\ listeners' = Remove(listeners, k)
    /\ unsubscribed' = unsubscribed \cup {k}
    /\ stack' = [i \in 1 .. Len(stack) |->
                    [Invoked[i] EXCEPT !.removed = @ \cup {k}]]
    /\ last' = Op("listenerUnsubscribe", NoAction, k, NoFrame, "none")
    /\ UNCHANGED <<state, listenerCount, freshIds, knownFilters, app>>

\* the listener calls store.dispatch(action) while the pass is in progress
listenerDispatch(action) ==
    /\ Notifying
    /\ Len(stack) < MaxDepth
    /\ action \in Dispatchable
    /\ DispatchCall(action, Invoked)
    /\ UNCHANGED nextTodoId

\* every listener of the pass has been invoked: the dispatch call returns
dispatchReturn ==
    /\ stack # <<>>
    /\ ~Notifying
    /\ stack' = SubSeq(stack, 1, Len(stack) - 1)
    /\ last' = Op("return", NoAction, 0, Top, "none")
    /\ UNCHANGED <<state, listeners, listenerCount, unsubscribed, freshIds,
                   knownFilters, app>>

Next ==
    \/ \E a \in Actions : dispatch(a)
    \/ \E l \in 1 .. NumListeners : subscribe(l)
    \/ \E l \in 1 .. NumListeners : unsubscribe(l)
    \/ listenerRender
    \/ \E k \in 1 .. NumListeners : listenerUnmount(k)
    \/ dispatchReturn

\* the store driven by any caller; listeners re-render and may unmount
\* components, and never dispatch (no listener of src/todo.js does)
Spec == Init /\ [][Next]_vars

NextReentrant ==
    \/ \E a \in Actions : dispatch(a)
    \/ \E l \in 1 .. NumListeners : subscribe(l)
    \/ listenerRender
    \/ \E a \in Actions : listenerDispatch(a)
    \/ dispatchReturn

\* the store with listeners that may dispatch
SpecReentrant == Init /\ [][NextReentrant]_vars

\* ------------------------------------- the application, render subscribed
getVisibleTodosMutSwapped(todoList, filter) ==
    CASE filter = "SHOW_ALL" -> todoList
      [] filter = "SHOW_ACTIVE" ->
            SelectSeq(todoList, LAMBDA t : t.completed)
      [] filter = "SHOW_COMPLETED" ->
            SelectSeq(todoList, LAMBDA t : ~t.completed)
      [] OTHER -> Undefined

\* const getVisibleTodos = (todos, filter) => ...; the switch has no default
\* case, so any other filter gives undefined
getVisibleTodos(todoList, filter) ==
    CASE filter = "SHOW_ALL" -> todoList
      [] filter = "SHOW_ACTIVE" ->
            SelectSeq(todoList, LAMBDA t : ~t.completed)
      [] filter = "SHOW_COMPLETED" ->
            SelectSeq(todoList, LAMBDA t : t.completed)
      [] OTHER -> Undefined

\* TodoApp.render with the store state as props: the TodoList shows
\* visibleTodos, the FilterLinks get currentFilter
TodoAppRender(props) ==
    [visibleTodos |-> getVisibleTodos(props.todos, props.visibilityFilter),
     currentFilter |-> props.visibilityFilter]

\* const store = createStore(todoApp); store.subscribe(render); render();
InitApp ==
    /\ state = todoApp(Undefined, InitAction)
    /\ listeners = <<1>>
    /\ listenerCount = 1
    /\ unsubscribed = {}
    /\ stack = <<>>
    /\ freshIds = TRUE
    /\ knownFilters = TRUE
    /\ nextTodoId = 0
    /\ rendered = TodoAppRender(todoApp(Undefined, InitAction))
    /\ last = [op |-> "render", action |-> NoAction,
               pre |-> todoApp(Undefined, InitAction),
               preListeners |-> <<1>>, l |-> 0, depth |-> 0,
               frame |-> NoFrame, error |-> "none"]

addTodoClickMutNoIncrement(text) ==
    /\ stack = <<>>
    /\ Len(state.todos) < MaxTodos
    /\ DispatchCall([type |-> "ADD_TODO", text |-> text, id |-> nextTodoId],
                    stack)
    /\ nextTodoId' = nextTodoId

\* the Add Todo button: dispatch ADD_TODO with the text of the input and
\* id: nextTodoId++
addTodoClick(text) ==
    /\ stack = <<>>
    /\ Len(state.todos) < MaxTodos
    /\ DispatchCall([type |-> "ADD_TODO", text |-> text, id |-> nextTodoId],
                    stack)
    /\ nextTodoId' = nextTodoId + 1

\* a click on a todo of the rendered list: onTodoClick(todo.id)
todoClick(id) ==
    /\ stack = <<>>
    /\ id \in IdsOf(rendered.visibleTodos)
    /\ DispatchCall([type |-> "TOGGLE_TODO", id |-> id], stack)
    /\ UNCHANGED nextTodoId

\* a click on a FilterLink; the link of the current filter is a span that
\* cannot be clicked
filterLinkClick(filter) ==
    /\ stack = <<>>
    /\ filter # rendered.currentFilter
    /\ DispatchCall([type |-> "SET_VISIBILITY_FILTER", filter |-> filter],
                    stack)
    /\ UNCHANGED nextTodoId

\* the listener render: ReactDOM.render(<TodoApp {...store.getState()}/>)
render ==
    /\ Notifying
    /\ stack' = Invoked
    /\ rendered' = TodoAppRender(getState)
    /\ last' = Op("listener", NoAction, Current, NoFrame, "none")
    /\ UNCHANGED <<state, listeners, listenerCount, unsubscribed, freshIds,
                   knownFilters, nextTodoId>>

NextApp ==
    \/ \E text \in Texts : addTodoClick(text)
    \/ \E id \in 0 .. MaxTodos : todoClick(id)
    \/ \E filter \in Filters : filterLinkClick(filter)
    \/ render
    \/ dispatchReturn

\* the application driven by clicks
SpecApp == InitApp /\ [][NextApp]_vars

\* ------------------------------------------------- the reducer todo alone
\* the todos that the reducers build from the actions
Todos == [id : Ids, text : Texts, completed : BOOLEAN]

\* what todo is given as its state: a todo, or undefined
TodoArgs == Todos \cup {Undefined}

\* a call todo(current, action) about to be made
InitTodo ==
    /\ state = todoApp(Undefined, InitAction)
    /\ listeners = <<>>
    /\ listenerCount = 0
    /\ unsubscribed = {}
    /\ stack = <<>>
    /\ freshIds = TRUE
    /\ knownFilters = TRUE
    /\ nextTodoId = 0
    /\ rendered = NothingRendered
    /\ \E current \in TodoArgs, action \in Actions :
          last = [op |-> "call", current |-> current, action |-> action,
                  result |-> Undefined]

\* the call returns a todo or undefined, or raises TypeError
callTodo ==
    /\ last.op = "call"
    /\ last' = [last EXCEPT !.op = "todo",
                            !.result = todo(last.current, last.action)]
    /\ UNCHANGED <<state, listeners, listenerCount, unsubscribed, stack,
                   freshIds, knownFilters, app>>

NextTodo == callTodo

\* todo called on every state and action
SpecTodo == InitTodo /\ [][NextTodo]_vars

TypeOK ==
    /\ Len(state.todos) <= MaxTodos
    /\ state.visibilityFilter \in FilterValues
    /\ listenerCount \in 0 .. NumListeners
    /\ Range(listeners) \subseteq 1 .. listenerCount
    /\ Len(stack) <= MaxDepth

\* --------------------------------------------------------------- claims
Count(s, x) == Cardinality({i \in 1 .. Len(s) : s[i] = x})

IsIncreasing(s) == \A i, j \in 1 .. Len(s) : i < j => s[i] < s[j]

UniqueIds(s) == \A i, j \in 1 .. Len(s) : s[i].id = s[j].id => i = j

Dispatched(type) ==
    /\ last.op = "dispatch"
    /\ last.action.type = type

\* C1: after dispatch of ADD_TODO{id, text} on a collection s, the
\* collection is one longer, its first Len(s) elements are those of s in the
\* same order, and its last element is {id, text, completed: false}.
C1_AddTodoAppends ==
    Dispatched("ADD_TODO") =>
        LET s == last.pre.todos
            r == state.todos
        IN  /\ Len(r) = Len(s) + 1
            /\ \A i \in 1 .. Len(s) : r[i] = s[i]
            /\ r[Len(r)].id = last.action.id
            /\ r[Len(r)].text = last.action.text
            /\ r[Len(r)].completed = FALSE
            /\ DOMAIN r[Len(r)] = {"id", "text", "completed"}

\* ADD_TODO was dispatched on a collection that already held a todo
C1_Witness ==
    /\ Dispatched("ADD_TODO")
    /\ Len(last.pre.todos) >= 1
    /\ Len(state.todos) = Len(last.pre.todos) + 1

\* C2: after dispatch of TOGGLE_TODO{id} the collection has the same
\* length; every element with that id has completed negated and id and text
\* kept, every other element is unchanged at its position; with no element
\* of that id the collection is unchanged.
C2_ToggleTodoMaps ==
    Dispatched("TOGGLE_TODO") =>
        LET s == last.pre.todos
            r == state.todos
        IN  /\ Len(r) = Len(s)
            /\ \A i \in 1 .. Len(s) :
                  IF s[i].id = last.action.id
                  THEN /\ r[i].completed = ~s[i].completed
                       /\ r[i].id = s[i].id
                       /\ r[i].text = s[i].text
                  ELSE r[i] = s[i]
            /\ (last.action.id \notin IdsOf(s)) => r = s

\* TOGGLE_TODO was dispatched on a collection holding a todo with the id
\* and a todo with another id
C2_Witness ==
    /\ Dispatched("TOGGLE_TODO")
    /\ \E i, j \in 1 .. Len(last.pre.todos) :
          /\ last.pre.todos[i].id = last.action.id
          /\ last.pre.todos[j].id # last.action.id
          /\ state.todos[i].completed # last.pre.todos[i].completed

\* C3: dispatch(a) replaces the state with todoApp(state, a); its pass then
\* invokes the listeners registered at that moment in registration order,
\* each listener reads the new state from getState(), and when dispatch
\* returns every one of them has been invoked exactly once, also when the
\* new state equals the old one.
C3_DispatchNotifiesAll ==
    /\ (last.op = "dispatch" /\ last.error = "none") =>
          /\ state = todoApp(last.pre, last.action)
          /\ stack # <<>>
          /\ Top.invoked = <<>>
    /\ last.op \in {"listener", "listenerUnsubscribe"} =>
          /\ last.pre = Top.next
          /\ Top.invoked = SubSeq(Top.registered, 1, Len(Top.invoked))
    /\ last.op = "return" =>
          /\ last.frame.invoked = last.frame.registered
          /\ IsIncreasing(last.frame.invoked)
          /\ \A l \in Range(last.frame.registered) :
                Count(last.frame.invoked, l) = 1

\* a dispatch that left the state as it was has returned after invoking two
\* listeners
C3_Witness ==
    /\ last.op = "return"
    /\ Len(last.frame.invoked) >= 2
    /\ ~last.frame.changed

\* C4: after dispatch of SET_VISIBILITY_FILTER{filter: f}, for any f,
\* visibilityFilter is f and todos is what it was.
C4_SetFilterVerbatim ==
    Dispatched("SET_VISIBILITY_FILTER") =>
        /\ state.visibilityFilter = last.action.filter
        /\ state.todos = last.pre.todos

\* a filter value outside the three valid ones was set on a non-empty
\* collection
C4_Witness ==
    /\ Dispatched("SET_VISIBILITY_FILTER")
    /\ last.action.filter \notin Filters
    /\ last.pre.visibilityFilter # last.action.filter
    /\ state.todos # <<>>

\* C5: dispatch of an action whose type is none of ADD_TODO, TOGGLE_TODO,
\* SET_VISIBILITY_FILTER raises no error and leaves todos and
\* visibilityFilter as they were.
C5_UnknownActionIsNoOp ==
    (/\ last.op = "dispatch"
     /\ last.action.type
           \notin {"ADD_TODO", "TOGGLE_TODO", "SET_VISIBILITY_FILTER"}) =>
        /\ last.error = "none"
        /\ state.todos = last.pre.todos
        /\ state.visibilityFilter = last.pre.visibilityFilter

\* an action of unknown type was dispatched on a non-empty collection with
\* a filter other than the default
C5_Witness ==
    /\ Dispatched("UNKNOWN")
    /\ state.todos # <<>>
    /\ state.visibilityFilter # visibilityFilterDefault

\* C6 as stated: in every state reached by dispatching ADD_TODO,
\* TOGGLE_TODO and SET_VISIBILITY_FILTER actions with any ids, the
\* collection holds at most one todo per id.
C6_UniqueIdsAnyDispatch == UniqueIds(state.todos)

\* C6 amended: in every state reached by dispatches in which no ADD_TODO
\* carried the id of a todo already in the collection, the collection holds
\* at most one todo per id.
C6_UniqueIdsFreshAdds == freshIds => UniqueIds(state.todos)

\* two todos with different ids were added, the second by the last dispatch
C6_Witness ==
    /\ Dispatched("ADD_TODO")
    /\ freshIds
    /\ Len(state.todos) = 2
    /\ state.todos[1].id # state.todos[2].id

\* C7: in every step the todo at each position keeps its position, id and
\* text; the collection never shrinks, and its length changes exactly on a
\* dispatch of ADD_TODO, by one.
C7_PositionsStable ==
    [][/\ Len(state'.todos) >= Len(state.todos)
       /\ \A i \in 1 .. Len(state.todos) :
             /\ state'.todos[i].id = state.todos[i].id
             /\ state'.todos[i].text = state.todos[i].text
       /\ IF last'.op = "dispatch" /\ last'.action.type = "ADD_TODO"
          THEN Len(state'.todos) = Len(state.todos) + 1
          ELSE Len(state'.todos) = Len(state.todos)]_vars

\* TOGGLE_TODO changed a todo of a collection of two
C7_Witness ==
    /\ Dispatched("TOGGLE_TODO")
    /\ Len(state.todos) = 2
    /\ state.todos # last.pre.todos

\* C8 as stated (SpecReentrant): a dispatch called by a listener while a
\* notification pass is in progress is rejected with ReentrantDispatchError,
\* leaves the state unchanged and starts no notification pass.
C8_ReentrantDispatchRejected ==
    (last.op = "dispatch" /\ last.depth > 0) =>
        /\ last.error = "ReentrantDispatchError"
        /\ state = last.pre
        /\ Len(stack) = last.depth

\* C9: when listeners unsubscribe themselves or others during a pass, every
\* listener registered when the pass started and not removed during it has
\* been invoked exactly once when the pass ends, no listener has been
\* invoked twice, and the pass ends without error.
C9_UnsubscribeDuringPass ==
    (last.op = "return" /\ last.frame.removed # {}) =>
        /\ \A l \in Range(last.frame.registered) \ last.frame.removed :
              Count(last.frame.invoked, l) = 1
        /\ \A l \in 1 .. NumListeners : Count(last.frame.invoked, l) <= 1
        /\ last.error = "none"

\* a pass has ended in which the first of two listeners was unsubscribed
\* and the second stayed
C9_Witness ==
    /\ last.op = "return"
    /\ Len(last.frame.registered) = 2
    /\ last.frame.removed = {last.frame.registered[1]}

C11_FilterAlwaysKnown == state.visibilityFilter \in Filters

\* C11 amended: as long as every SET_VISIBILITY_FILTER dispatched carried one
\* of the three filters, visibilityFilter is one of the three.
C11_FilterKnownIfSetKnown ==
    knownFilters => state.visibilityFilter \in Filters

\* a filter link replaced one of the three filters by another one
C11_Witness ==
    /\ Dispatched("SET_VISIBILITY_FILTER")
    /\ knownFilters
    /\ last.pre.visibilityFilter = "SHOW_ACTIVE"
    /\ state.visibilityFilter = "SHOW_COMPLETED"

\* C12 as stated (SpecTodo): todo(current, action) returns a value without
\* raising an error for every current that is undefined or a todo and every
\* action.
C12_TodoTotal == last.op = "todo" => last.result # TypeError

\* C13: dispatching ADD_TODO or TOGGLE_TODO leaves visibilityFilter as it
\* was; what a dispatched action did to todos is what it would have done
\* with any other visibilityFilter, and what it did to visibilityFilter is
\* what it would have done with another collection.
C13_FieldsIndependent ==
    /\ (Dispatched("ADD_TODO") \/ Dispatched("TOGGLE_TODO")) =>
          state.visibilityFilter = last.pre.visibilityFilter
    /\ last.op = "dispatch" =>
          \A f \in FilterValues :
              todoApp([last.pre EXCEPT !.visibilityFilter = f],
                      last.action).todos = state.todos
    /\ last.op = "dispatch" =>
          \A s \in {<<>>, state.todos} :
              todoApp([last.pre EXCEPT !.todos = s],
                      last.action).visibilityFilter = state.visibilityFilter

\* a todo was added to a non-empty collection while the filter was not the
\* default one
C13_Witness ==
    /\ Dispatched("ADD_TODO")
    /\ last.pre.todos # <<>>
    /\ last.pre.visibilityFilter = "SHOW_COMPLETED"
    /\ state.visibilityFilter = "SHOW_COMPLETED"

\* C14: todo applied twice with the same TOGGLE_TODO to a todo of the
\* collection that a dispatch produced gives back that todo, and once a
\* TOGGLE_TODO has been dispatched, the same action again gives back the
\* state from before the first one.
C14_ToggleTwiceRestores ==
    /\ last.op = "dispatch" =>
          \A i \in 1 .. Len(state.todos), id \in Ids :
              LET a == [type |-> "TOGGLE_TODO", id |-> id]
              IN  todo(todo(state.todos[i], a), a) = state.todos[i]
    /\ Dispatched("TOGGLE_TODO") => todoApp(state, last.action) = last.pre

\* TOGGLE_TODO was dispatched and changed one todo of two
C14_Witness ==
    /\ Dispatched("TOGGLE_TODO")
    /\ Len(state.todos) = 2
    /\ \E i \in 1 .. 2 : state.todos[i] # last.pre.todos[i]
    /\ \E i \in 1 .. 2 : state.todos[i] = last.pre.todos[i]

\* the store holds a state with both fields
Ready == DOMAIN state = {"todos", "visibilityFilter"}

\* C15: the store is initialised at construction by a bootstrap action that
\* no reducer recognizes, to {todos: [], visibilityFilter: SHOW_ALL}; it is
\* never initialised again, every state is a Ready state, and some store
\* operation is possible in every state.
C15_ReadyOnceAndForever ==
    /\ last.op = "createStore"
    /\ last.action.type
          \notin {"ADD_TODO", "TOGGLE_TODO", "SET_VISIBILITY_FILTER"}
    /\ state = [todos |-> <<>>, visibilityFilter |-> "SHOW_ALL"]
    /\ [](Ready /\ state # Undefined)
    /\ [][last'.op # "createStore"]_vars
    /\ [](stack = <<>> => ENABLED dispatch([type |-> "UNKNOWN"]))
    /\ [](stack # <<>> => ENABLED (listenerRender \/ dispatchReturn))

\* a dispatch on a state with two todos has returned
C15_Witness ==
    /\ last.op = "return"
    /\ Len(state.todos) = 2
    /\ state.visibilityFilter # visibilityFilterDefault

\* C16 (SpecApp): nextTodoId is the number of todos and the todo at 0-based
\* position i has id i, so the ids are unique and increase along the list.
C16_IdsArePositions ==
    /\ nextTodoId = Len(state.todos)
    /\ \A i \in 1 .. Len(state.todos) : state.todos[i].id = i - 1
    /\ UniqueIds(state.todos)
    /\ \A i, j \in 1 .. Len(state.todos) :
          i < j => state.todos[i].id < state.todos[j].id

\* two todos were added with the same, empty, text
C16_Witness ==
    /\ Dispatched("ADD_TODO")
    /\ Len(state.todos) = 2
    /\ state.todos[1].text = ""
    /\ state.todos[2].text = ""
    /\ nextTodoId = 2

\* C17 (SpecApp): whenever no dispatch is in progress, the rendered list is
\* getVisibleTodos(state.todos, state.visibilityFilter): all todos for
\* SHOW_ALL, those not completed for SHOW_ACTIVE, those completed for
\* SHOW_COMPLETED, in collection order.
C17_ViewNeverStale ==
    stack = <<>> =>
        /\ rendered.visibleTodos
              = getVisibleTodos(state.todos, state.visibilityFilter)
        /\ rendered.currentFilter = state.visibilityFilter
        /\ state.visibilityFilter = "SHOW_ALL" =>
              rendered.visibleTodos = state.todos
        /\ state.visibilityFilter = "SHOW_ACTIVE" =>
              rendered.visibleTodos
                  = SelectSeq(state.todos, LAMBDA t : t.completed = FALSE)
        /\ state.visibilityFilter = "SHOW_COMPLETED" =>
              rendered.visibleTodos
                  = SelectSeq(state.todos, LAMBDA t : t.completed = TRUE)
        /\ state.visibilityFilter \in Filters

\* a dispatch has returned with SHOW_ACTIVE set and, of two todos, only the
\* second one shown
C17_Witness ==
    /\ last.op = "return"
    /\ stack = <<>>
    /\ state.visibilityFilter = "SHOW_ACTIVE"
    /\ Len(state.todos) = 2
    /\ state.todos[1].completed
    /\ rendered.visibleTodos = <<state.todos[2]>>
====
